---- MODULE Spec2Model ----
(***************************************************************************)
(* trip_kinematics: Robot (a tree of kinematic groups addressed by name),   *)
(* forward_kinematics and SimpleInvKinSolver, as a state machine.           *)
(*                                                                         *)
(* Robot.py is modelled from its source.  Transformation, KinematicGroup    *)
(* and OpenKinematicGroup live in trip_kinematics/KinematicGroup.py, which  *)
(* Robot.py imports; the operators that stand for them are kept apart in    *)
(* the section "KinematicGroup.py".                                         *)
(***************************************************************************)
EXTENDS Integers, Sequences, FiniteSets, TLC

\* ------------------------------------------------------------------ bounds

\* longest kinematic_chain handed to Robot(...) where only construction and the
\* ancestor chain are followed
MaxChain == 3
\* longest kinematic_chain of a robot whose state is set and solved for
MaxGroups == 2
\* iterations of the parent-following loop the model follows before it stops
\* looking (the loop in the code has no such limit)
MaxWalk == 5
\* most entries of a dict argument of a setter
MaxKeys == 2
\* setter calls made on one robot, solve calls made on one solver
MaxCalls == 1

\* ------------------------------------------------------------------ values

\* joint values; SXsym stands for a casadi SX.sym symbol stored in a state
Values == {0, 1}
SXsym == 0 - 1

\* names, by position in kinematic_chain (group names are unique)
Names == <<"A", "B", "C", "D", "E">>
\* the state-carrying transformation of the group at a position
JointNames == <<"ja", "jb", "jc", "jd", "je">>
\* the second one, and the private actuator of a closed group
SecondNames == <<"ka", "kb", "kc", "kd", "ke">>
MotorNames == <<"na", "nb", "nc", "nd", "ne">>
\* the fixed transformation of the group at a position
FixedNames == <<"fa", "fb", "fc", "fd", "fe">>

NoState == << >>
Joint0 == [p \in {"ry"} |-> 0]

Range(s) == {s[i] : i \in DOMAIN s}

\* position of a group in robot._group_dict (dicts keep insertion order)
Position(name) == CHOOSE i \in DOMAIN Names : Names[i] = name

\* d1 updated by d2 (Python's dict.update)
Merge(d1, d2) ==
    [k \in DOMAIN d1 \cup DOMAIN d2 |-> IF k \in DOMAIN d2 THEN d2[k] ELSE d1[k]]

Restrict(d, ks) == [k \in ks \cap DOMAIN d |-> d[k]]

RECURSIVE SetToSeq(_)
SetToSeq(S) ==
    IF S = {} THEN << >>
    ELSE LET x == CHOOSE y \in S : TRUE IN <<x>> \o SetToSeq(S \ {x})

\* ------------------------------------------------------------------ KinematicGroup.py

\* Transformation(name, values, state_variables): its name and the current
\* values of its state variables
Transformation(name, state) == [name |-> name, state |-> state]

\* Transformation.get_state(): the live state map of the transformation
TrafoGetState(t) == t.state

\* key of an open group's actuated state: transformation name and parameter
CompositeKey(tname, p) == tname \o "_" \o p

\* parent=None of the group constructors
None == "None"

\* KinematicGroup(name, virtual_transformations, actuated_state, ..., parent):
\* the parent is kept as a name; parent None makes the group its own parent
\* (the root)
KinematicGroup(name, trafos, astate, parent) ==
    [kind |-> "Group", name |-> name,
     parent |-> IF parent = None THEN name ELSE parent, closed |-> TRUE,
     trafos |-> trafos, astate |-> astate, v2a_arg |-> 0, a2v_arg |-> 0]

\* OpenKinematicGroup(name, virtual_transformations, parent)
OpenKinematicGroup(name, trafos, parent) ==
    [kind |-> "Group", name |-> name,
     parent |-> IF parent = None THEN name ELSE parent, closed |-> FALSE,
     trafos |-> trafos, astate |-> NoState, v2a_arg |-> 0, a2v_arg |-> 0]

\* group.get_virtual_state(): the states of the transformations that have one
GroupVirtualState(g) ==
    LET idx == {i \in DOMAIN g.trafos : g.trafos[i].state # NoState}
    IN  [n \in {g.trafos[i].name : i \in idx} |->
            (CHOOSE t \in Range(g.trafos) : t.name = n /\ t.state # NoState).state]

\* group.get_transformation_matrix(): the ordered product of the member
\* matrices at the current state.  A matrix is kept as the sequence of its
\* factors (name and state of a transformation), so that the product is
\* concatenation: associative, not commutative, identity << >>
GroupMatrix(g) == [i \in DOMAIN g.trafos |-> <<g.trafos[i].name, g.trafos[i].state>>]

\* group.get_actuated_state(): an open group's actuated state is its virtual
\* state under composite keys
GroupActuatedState(g) ==
    IF g.closed THEN g.astate
    ELSE LET pairs == {<<i, p>> \in (DOMAIN g.trafos) \X {"ry"} :
                            p \in DOMAIN g.trafos[i].state}
         IN  [k \in {CompositeKey(g.trafos[pr[1]].name, pr[2]) : pr \in pairs} |->
                LET pr == CHOOSE q \in pairs :
                              CompositeKey(g.trafos[q[1]].name, q[2]) = k
                IN  g.trafos[pr[1]].state[pr[2]]]

\* the two mapping functions of a closed group, supplied by the model author:
\* every output coordinate is computed from all input coordinates and the
\* auxiliary argument; a symbol among the inputs makes the output symbolic
MapValue(vals, arg) ==
    IF SXsym \in vals THEN SXsym
    ELSE ((IF 1 \in vals THEN 1 ELSE 0) + arg) % 2

StateValues(trafos) ==
    UNION {Range(trafos[i].state) : i \in DOMAIN trafos}

\* group.set_virtual_state(state): updates the named transformations; a closed
\* group then recomputes its actuated state with virtual_to_actuated
GroupSetVirtualState(g, state) ==
    LET trafos == [i \in DOMAIN g.trafos |->
                     IF g.trafos[i].name \in DOMAIN state /\ g.trafos[i].state # NoState
                     THEN [g.trafos[i] EXCEPT
                              !.state = Merge(g.trafos[i].state, state[g.trafos[i].name])]
                     ELSE g.trafos[i]]
    IN  IF g.closed
        THEN [g EXCEPT !.trafos = trafos,
                       !.astate = [k \in DOMAIN g.astate |->
                                      MapValue(StateValues(trafos), g.v2a_arg)]]
        ELSE [g EXCEPT !.trafos = trafos]

\* group.set_actuated_state(state): an open group writes the values into its
\* transformations; a closed group updates its actuated state and recomputes
\* its virtual state with actuated_to_virtual
GroupSetActuatedState(g, state) ==
    IF g.closed
    THEN LET astate == Merge(g.astate, Restrict(state, DOMAIN g.astate))
         IN  [g EXCEPT !.astate = astate,
                       !.trafos = [i \in DOMAIN g.trafos |->
                           [g.trafos[i] EXCEPT !.state =
                               [p \in DOMAIN g.trafos[i].state |->
                                   MapValue(Range(astate), g.a2v_arg)]]]]
    ELSE [g EXCEPT !.trafos = [i \in DOMAIN g.trafos |->
             [g.trafos[i] EXCEPT !.state =
                 [p \in DOMAIN g.trafos[i].state |->
                     IF CompositeKey(g.trafos[i].name, p) \in DOMAIN state
                     THEN state[CompositeKey(g.trafos[i].name, p)]
                     ELSE g.trafos[i].state[p]]]]]

\* group.pass_arg_v_to_a(arg), group.pass_arg_a_to_v(arg): keep the auxiliary
\* argument for the next call of the mapping function; nothing is recomputed
GroupPassArgVtoA(g, arg) == [g EXCEPT !.v2a_arg = arg]
GroupPassArgAtoV(g, arg) == [g EXCEPT !.a2v_arg = arg]

\* ------------------------------------------------------------------ inputs

\* what a position of kinematic_chain can hold
Shapes == {"T_fixed", "T_joint", "open_fixed", "open_joint", "open_shared",
           "open_two", "closed", "closed_static"}

Element(shape, i, parent) ==
    CASE shape = "T_fixed" ->
           [kind |-> "Transformation", name |-> Names[i], state |-> NoState]
      [] shape = "T_joint" ->
           [kind |-> "Transformation", name |-> Names[i], state |-> Joint0]
      [] shape = "open_fixed" ->
           OpenKinematicGroup(Names[i], <<Transformation(FixedNames[i], NoState)>>, parent)
      [] shape = "open_joint" ->
           OpenKinematicGroup(Names[i],
               <<Transformation(FixedNames[i], NoState), Transformation(JointNames[i], Joint0)>>,
               parent)
      [] shape = "open_shared" ->
           OpenKinematicGroup(Names[i], <<Transformation("j", Joint0)>>, parent)
      [] shape = "open_two" ->
           OpenKinematicGroup(Names[i],
               <<Transformation(JointNames[i], Joint0),
                 Transformation(SecondNames[i], Joint0)>>, parent)
      [] shape = "closed" ->
           KinematicGroup(Names[i],
               <<Transformation(FixedNames[i], NoState), Transformation(JointNames[i], Joint0)>>,
               [k \in {"m", MotorNames[i]} |-> 0], parent)
      [] shape = "closed_static" ->
           KinematicGroup(Names[i], <<Transformation(FixedNames[i], NoState)>>,
               [k \in {"m"} |-> 0], parent)

TrafoShapes == {"T_fixed", "T_joint"}

\* the parents a group at position i of a chain of length n is built with:
\* "any" is no parent, any other name of the chain, or a group that is not
\* handed to the robot; "serial" is no parent for the first group and the
\* previous element for the others
Parents(i, n, links) ==
    IF links = "any" THEN {None, "Z"} \cup {Names[j] : j \in (1..n) \ {i}}
    ELSE IF i = 1 THEN {None} ELSE {Names[i - 1]}

\* the elements position i of a chain of length n can hold: a bare
\* Transformation or a group
Options(i, n, shapes, links) ==
    {Element(s, i, None) : s \in shapes \cap TrafoShapes}
    \cup {Element(s, i, p) : s \in shapes \ TrafoShapes, p \in Parents(i, n, links)}

RECURSIVE ChainsTo(_, _, _, _)
ChainsTo(k, n, shapes, links) ==
    IF k = 0 THEN {<< >>}
    ELSE {Append(c, e) : c \in ChainsTo(k - 1, n, shapes, links),
                         e \in Options(k, n, shapes, links)}

Chains(shapes, links, max) == UNION {ChainsTo(n, n, shapes, links) : n \in 1..max}

\* ------------------------------------------------------------------ state

VARIABLES
    chain,      \* the kinematic_chain argument of Robot(...)
    pc,         \* "new", "idle" (a Robot exists), "failed", or inside a call
    groups,     \* robot._group_dict: name -> group
    amap,       \* robot._actuator_group_mapping: actuator key -> group name
    vmap,       \* robot._virtual_group_mapping: virtual key -> group name
    walk,       \* the locals of the parent-following loop while it runs
    solver,     \* the SimpleInvKinSolver built on the robot, if any
    clone,      \* _group_dict of the solver's deepcopy of the robot
    ncalls,     \* calls made so far
    calls,      \* the calls the last operation made on groups, in order
    result      \* what the last operation returned or raised

vars == <<chain, pc, groups, amap, vmap, walk, solver, clone, ncalls, calls, result>>

NoWalk == [mode |-> "none"]
NoSolver == [built |-> FALSE]

NoResult == [op |-> "none", status |-> "none"]

\* ------------------------------------------------------------------ Robot.__init__

\* the wrapper's parent taken from the first element instead of the previous
WrapParentFirst(gd, ch, i) ==
    IF i > 1 THEN gd[ch[1].name].name ELSE None

\* lines 33-37: the parent a bare Transformation at index i is wrapped with
\* (indices count from 1 here): the group registered under the name of the
\* previous element, or none for the first element
WrapParent(gd, ch, i) ==
    IF i > 1 THEN gd[ch[i - 1].name].name ELSE None

\* one iteration of the loop over kinematic_chain; acc.err is the KeyError
\* raised so far
InitElement(acc, ch, i) ==
    LET raw   == ch[i]
        group == IF raw.kind = "Transformation"
                 THEN OpenKinematicGroup(raw.name,
                          <<Transformation(raw.name, raw.state)>>,
                          WrapParent(acc.gd, ch, i))
                 ELSE raw
        gd    == Merge(acc.gd, [n \in {group.name} |-> group])
        akeys == DOMAIN GroupActuatedState(group)
        vkeys == DOMAIN GroupVirtualState(group)
    IN  IF GroupVirtualState(group) = NoState
        THEN [acc EXCEPT !.gd = gd]
        ELSE IF akeys \cap DOMAIN acc.am # {}
        THEN [acc EXCEPT !.gd = gd, !.err = "actuator_name_conflict"]
        ELSE IF vkeys \cap DOMAIN acc.vm # {}
        THEN [acc EXCEPT !.gd = gd, !.err = "virtual_name_conflict",
                         !.am = Merge(acc.am, [k \in akeys |-> group.name])]
        ELSE [acc EXCEPT !.gd = gd,
                         !.am = Merge(acc.am, [k \in akeys |-> group.name]),
                         !.vm = Merge(acc.vm, [k \in vkeys |-> group.name])]

RECURSIVE InitLoop(_, _, _)
InitLoop(acc, ch, i) ==
    IF i > Len(ch) \/ acc.err # "none" THEN acc
    ELSE InitLoop(InitElement(acc, ch, i), ch, i + 1)

RobotInit(ch) ==
    InitLoop([gd |-> << >>, am |-> << >>, vm |-> << >>, err |-> "none"], ch, 1)

\* robot = Robot(kinematic_chain): a Robot, or the KeyError and no Robot
Construct ==
    /\ pc = "new"
    /\ LET r == RobotInit(chain)
       IN  IF r.err = "none"
           THEN /\ pc' = "idle"
                /\ groups' = r.gd
                /\ amap' = r.am
                /\ vmap' = r.vm
                /\ result' = [op |-> "Robot", status |-> "ok"]
           ELSE /\ pc' = "failed"
                /\ UNCHANGED <<groups, amap, vmap>>
                /\ result' = [op |-> "Robot", status |-> "KeyError", error |-> r.err]
    /\ calls' = << >>
    /\ UNCHANGED <<chain, walk, solver, clone, ncalls>>

InitWith(shapes, links, max) ==
    /\ chain \in Chains(shapes, links, max)
    /\ pc = "new"
    /\ groups = << >>
    /\ amap = << >>
    /\ vmap = << >>
    /\ walk = NoWalk
    /\ solver = NoSolver
    /\ clone = << >>
    /\ ncalls = 0
    /\ calls = << >>
    /\ result = NoResult

\* ------------------------------------------------------------------ ancestor chain

identity_transformation == << >>

Reverse(s) == [i \in 1..Len(s) |-> s[Len(s) + 1 - i]]

\* forward_kinematics, lines 266-273, and get_symbolic_rep, lines 141-153:
\* the endeffector check and the locals of the loop.  mode is the caller:
\* "fk" forward_kinematics, "sym" get_symbolic_rep, "inv" get_symbolic_rep
\* called by SimpleInvKinSolver.__init__, line 194, whose update_robot is kept
StartWalk(mode, endeffector, update_robot) ==
    /\ pc = "idle"
    /\ IF endeffector \notin DOMAIN groups
       THEN /\ result' = [op |-> mode, status |-> "KeyError", target |-> endeffector]
            /\ UNCHANGED <<pc, walk>>
       ELSE /\ walk' = [mode |-> mode, target |-> endeffector,
                        current_parent |-> groups[endeffector].parent,
                        current_key |-> endeffector,
                        group_key_list |-> <<endeffector>>,
                        update_robot |-> update_robot]
            /\ pc' = "walk"
            /\ result' = NoResult
    /\ calls' = << >>
    /\ UNCHANGED <<chain, groups, amap, vmap, solver, clone, ncalls>>

FKStart == \E e \in DOMAIN groups \cup {"nogroup"} : StartWalk("fk", e, FALSE)

\* one iteration of `while current_parent != current_key`
WalkStep ==
    /\ pc = "walk"
    /\ walk.current_parent # walk.current_key
    /\ Len(walk.group_key_list) < MaxWalk
    /\ IF walk.current_parent \notin DOMAIN groups
       THEN /\ result' = [op |-> walk.mode, status |-> "KeyError",
                          target |-> walk.target]
            /\ pc' = "idle"
            /\ walk' = NoWalk
       ELSE /\ walk' = [walk EXCEPT
                          !.current_key = walk.current_parent,
                          !.current_parent = groups[walk.current_parent].parent,
                          !.group_key_list = Append(walk.group_key_list,
                                                    walk.current_parent)]
            /\ UNCHANGED <<pc, result>>
    /\ UNCHANGED <<chain, groups, amap, vmap, solver, clone, ncalls, calls>>

RECURSIVE MatrixProduct(_, _)
\* transformation @ hmt over the groups of keys, in the order of keys
MatrixProduct(gd, keys) ==
    IF keys = << >> THEN identity_transformation
    ELSE GroupMatrix(gd[Head(keys)]) \o MatrixProduct(gd, Tail(keys))

\* group_key_list left as collected, target first
PathOrderAsCollected(group_key_list) == group_key_list

\* the order in which the groups of group_key_list are multiplied
PathOrder(group_key_list) == Reverse(group_key_list)

\* forward_kinematics, lines 280-285: the loop has ended
FKFinish ==
    /\ pc = "walk"
    /\ walk.mode = "fk"
    /\ walk.current_parent = walk.current_key
    /\ LET path == PathOrder(walk.group_key_list)
       IN  /\ result' = [op |-> "fk", status |-> "ok", target |-> walk.target,
                         path |-> path, value |-> MatrixProduct(groups, path)]
           /\ calls' = [i \in DOMAIN path |->
                          [group |-> path[i], op |-> "get_transformation_matrix"]]
    /\ pc' = "idle"
    /\ walk' = NoWalk
    /\ UNCHANGED <<chain, groups, amap, vmap, solver, clone, ncalls>>

\* ------------------------------------------------------------------ get_symbolic_rep

\* robot.get_symbolic_rep(endeffector), called on its own
SymStart == \E e \in DOMAIN groups \cup {"nogroup"} : StartWalk("sym", e, FALSE)

\* SimpleInvKinSolver(robot, endeffector, update_robot=u) up to the loop of
\* get_symbolic_rep; one solver is built on a robot
InvStart ==
    /\ ~solver.built
    /\ \E e \in DOMAIN groups \cup {"nogroup"}, u \in BOOLEAN : StartWalk("inv", e, u)

\* lines 166-174 for one group: state = virtual_transformation.get_state() is
\* the transformation's own map, so state[key] = SX.sym(...) writes into the
\* transformation
SymbolizeGroup(g) ==
    [g EXCEPT !.trafos = [i \in DOMAIN g.trafos |->
        [g.trafos[i] EXCEPT !.state =
            [p \in DOMAIN TrafoGetState(g.trafos[i]) |-> SXsym]]]]

Symbolize(gd, path) ==
    [n \in DOMAIN gd |-> IF n \in Range(path) THEN SymbolizeGroup(gd[n]) ELSE gd[n]]

\* symbolic_keys of one group: [virtual_key, key] per state variable, in the
\* order of the group's transformations
GroupSymbolicKeys(g) ==
    LET stateful == SelectSeq(g.trafos, LAMBDA t : TrafoGetState(t) # NoState)
    IN  [i \in DOMAIN stateful |-> <<stateful[i].name, "ry">>]

RECURSIVE SymbolicKeys(_, _)
SymbolicKeys(gd, path) ==
    IF path = << >> THEN << >>
    ELSE GroupSymbolicKeys(gd[Head(path)]) \o SymbolicKeys(gd, Tail(path))

\* get_symbolic_rep, lines 161-185, called on its own: the loop has ended
SymFinish ==
    /\ pc = "walk"
    /\ walk.mode = "sym"
    /\ walk.current_parent = walk.current_key
    /\ LET path == PathOrder(walk.group_key_list)
       IN  /\ groups' = Symbolize(groups, path)
           /\ result' = [op |-> "sym", status |-> "ok", target |-> walk.target,
                         path |-> path, value |-> MatrixProduct(groups', path),
                         symbolic_keys |-> SymbolicKeys(groups, path)]
           /\ calls' = [i \in DOMAIN path |->
                          [group |-> path[i], op |-> "get_virtual_transformations"]]
    /\ pc' = "idle"
    /\ walk' = NoWalk
    /\ UNCHANGED <<chain, amap, vmap, solver, clone, ncalls>>

\* deepcopy(robot)
deepcopy(gd) == gd

\* SimpleInvKinSolver.__init__, lines 194-210, after the loop of
\* get_symbolic_rep has ended
InvFinish ==
    /\ pc = "walk"
    /\ walk.mode = "inv"
    /\ walk.current_parent = walk.current_key
    /\ LET path == PathOrder(walk.group_key_list)
       IN  /\ groups' = Symbolize(groups, path)
           /\ solver' = [built |-> TRUE, endeffector |-> walk.target,
                         symbolic_keys |-> SymbolicKeys(groups, path),
                         update_robot |-> walk.update_robot]
           /\ clone' = IF walk.update_robot THEN << >> ELSE deepcopy(groups')
           /\ result' = [op |-> "SimpleInvKinSolver", status |-> "ok",
                         target |-> walk.target]
           /\ calls' = [i \in DOMAIN path |->
                          [group |-> path[i], op |-> "get_virtual_transformations"]]
    /\ pc' = "idle"
    /\ walk' = NoWalk
    /\ UNCHANGED <<chain, amap, vmap, ncalls>>

\* ------------------------------------------------------------------ Robot setters

\* A dict argument is a sequence of <<key, value>> pairs with distinct keys,
\* in the dict's iteration order.
Keys(d) == {d[i][1] : i \in DOMAIN d}
Lookup(d, k) == d[CHOOSE i \in DOMAIN d : d[i][1] = k][2]
AsMap(d) == [k \in Keys(d) |-> Lookup(d, k)]

Call(who, g, op, arg) == [robot |-> who, group |-> g, op |-> op, arg |-> arg]

\* the state of a robot while one of its methods runs: its groups, the calls
\* made on groups so far, and the exception raised, if any
Running(gd, cs) == [gd |-> gd, calls |-> cs, err |-> "none"]

RECURSIVE PassGroupArgSkipping(_, _, _, _, _)
\* forwarding that passes over a key that is no group instead of raising
PassGroupArgSkipping(r, who, op, argv_dict, i) ==
    IF i > Len(argv_dict) THEN r
    ELSE LET key == argv_dict[i][1]
             arg == argv_dict[i][2]
         IN  IF key \notin DOMAIN r.gd
             THEN PassGroupArgSkipping(r, who, op, argv_dict, i + 1)
             ELSE PassGroupArgSkipping(
                    [r EXCEPT !.gd[key] = IF op = "pass_arg_v_to_a"
                                          THEN GroupPassArgVtoA(r.gd[key], arg)
                                          ELSE GroupPassArgAtoV(r.gd[key], arg),
                              !.calls = Append(r.calls, Call(who, key, op, arg))],
                    who, op, argv_dict, i + 1)

RECURSIVE PassGroupArg(_, _, _, _, _)
\* Robot.pass_group_arg_v_to_a (op "pass_arg_v_to_a") and
\* Robot.pass_group_arg_a_to_v (op "pass_arg_a_to_v"), from entry i on
PassGroupArg(r, who, op, argv_dict, i) ==
    IF i > Len(argv_dict) \/ r.err # "none" THEN r
    ELSE LET key == argv_dict[i][1]
             arg == argv_dict[i][2]
         IN  IF key \notin DOMAIN r.gd
             THEN [r EXCEPT !.err = "KeyError"]
             ELSE PassGroupArg(
                    [r EXCEPT !.gd[key] = IF op = "pass_arg_v_to_a"
                                          THEN GroupPassArgVtoA(r.gd[key], arg)
                                          ELSE GroupPassArgAtoV(r.gd[key], arg),
                              !.calls = Append(r.calls, Call(who, key, op, arg))],
                    who, op, argv_dict, i + 1)

RECURSIVE RobotSetVirtualState(_, _, _, _, _)
\* Robot.set_virtual_state(state), from entry i on
RobotSetVirtualState(r, who, vm, state, i) ==
    IF i > Len(state) \/ r.err # "none" THEN r
    ELSE LET key == state[i][1]
             virtual_state == [k \in {key} |-> state[i][2]]
         IN  IF key \notin DOMAIN vm
             THEN [r EXCEPT !.err = "KeyError"]
             ELSE RobotSetVirtualState(
                    [r EXCEPT !.gd[vm[key]] =
                                  GroupSetVirtualState(r.gd[vm[key]], virtual_state),
                              !.calls = Append(r.calls,
                                  Call(who, vm[key], "set_virtual_state", virtual_state))],
                    who, vm, state, i + 1)

\* grouping whose entry for a group is replaced by each further key of the
\* group instead of being extended
GroupingOverwriting(acc, am, state, i) ==
    IF \E j \in DOMAIN state : state[j][1] \notin DOMAIN am
    THEN [acc EXCEPT !.err = "KeyError"]
    ELSE LET gs == SetToSeq({am[state[j][1]] : j \in DOMAIN state})
             last(g) == CHOOSE j \in DOMAIN state :
                            /\ am[state[j][1]] = g
                            /\ \A k \in DOMAIN state : am[state[k][1]] = g => k <= j
         IN  [acc EXCEPT !.grouping =
                 [n \in DOMAIN gs |->
                     <<gs[n], [k \in {state[last(gs[n])][1]} |-> state[last(gs[n])][2]]>>]]

RECURSIVE Grouping(_, _, _, _)
\* the first loop of Robot.set_actuated_state: grouping, as the sequence of
\* its <<group name, sub-map>> entries in insertion order, or the KeyError
Grouping(acc, am, state, i) ==
    IF i > Len(state) \/ acc.err # "none" THEN acc
    ELSE LET key == state[i][1]
         IN  IF key \notin DOMAIN am
             THEN [acc EXCEPT !.err = "KeyError"]
             ELSE LET g == am[key]
                      entry == [k \in {key} |-> state[i][2]]
                  IN  Grouping(
                        IF g \notin Keys(acc.grouping)
                        THEN [acc EXCEPT !.grouping = Append(acc.grouping, <<g, entry>>)]
                        ELSE [acc EXCEPT !.grouping =
                                [j \in DOMAIN acc.grouping |->
                                    IF acc.grouping[j][1] = g
                                    THEN <<g, Merge(acc.grouping[j][2], entry)>>
                                    ELSE acc.grouping[j]]],
                        am, state, i + 1)

RECURSIVE Delegate(_, _, _, _)
\* the second loop of Robot.set_actuated_state
Delegate(r, who, grouping, j) ==
    IF j > Len(grouping) THEN r
    ELSE Delegate(
           [r EXCEPT !.gd[grouping[j][1]] =
                         GroupSetActuatedState(r.gd[grouping[j][1]], grouping[j][2]),
                     !.calls = Append(r.calls,
                         Call(who, grouping[j][1], "set_actuated_state", grouping[j][2]))],
           who, grouping, j + 1)

\* set_actuated_state that delegates the keys met before a key that is no
\* registered actuator, and raises only then
RobotSetActuatedStateEager(r, who, am, state) ==
    LET n     == CHOOSE m \in 0..Len(state) :
                    /\ \A i \in 1..m : state[i][1] \in DOMAIN am
                    /\ m < Len(state) => state[m + 1][1] \notin DOMAIN am
        known == SubSeq(state, 1, n)
        g     == Grouping([grouping |-> << >>, err |-> "none"], am, known, 1)
        done  == Delegate(r, who, g.grouping, 1)
    IN  IF n < Len(state) THEN [done EXCEPT !.err = "KeyError"] ELSE done

\* Robot.set_actuated_state(state)
RobotSetActuatedState(r, who, am, state) ==
    LET g == Grouping([grouping |-> << >>, err |-> "none"], am, state, 1)
    IN  IF g.err # "none" THEN [r EXCEPT !.err = g.err]
        ELSE Delegate(r, who, g.grouping, 1)

\* Robot.get_actuated_state(): the actuated states of all groups, merged
RobotGetActuatedState(gd) ==
    LET owners(k) == {n \in DOMAIN gd : k \in DOMAIN GroupActuatedState(gd[n])}
        last(k)   == CHOOSE n \in owners(k) :
                         \A m \in owners(k) : Position(m) <= Position(n)
    IN  [k \in UNION {DOMAIN GroupActuatedState(gd[n]) : n \in DOMAIN gd} |->
            GroupActuatedState(gd[last(k)])[k]]

\* ------------------------------------------------------------------ calls on the robot

\* the dict arguments of at most MaxKeys entries over keys with the same value
\* under each key, in one iteration order and in the opposite one
Dicts(keys, vals) ==
    LET orders == UNION {{SetToSeq(ks), Reverse(SetToSeq(ks))} :
                     ks \in {k \in SUBSET keys : Cardinality(k) \in 1..MaxKeys}}
    IN  {[i \in DOMAIN ks |-> <<ks[i], v>>] : ks \in orders, v \in vals}

ReturnTo(r, op, arg) ==
    /\ result' = [op |-> op, status |-> IF r.err = "none" THEN "ok" ELSE r.err,
                  arg |-> arg]
    /\ calls' = r.calls
    /\ groups' = r.gd
    /\ ncalls' = ncalls + 1

\* robot.set_actuated_state(state)
SetActuatedState ==
    /\ pc = "idle"
    /\ ncalls < MaxCalls
    /\ \E state \in Dicts(DOMAIN amap \cup {"nokey"}, Values) :
          ReturnTo(RobotSetActuatedState(Running(groups, << >>), "robot", amap, state),
                   "set_actuated_state", state)
    /\ UNCHANGED <<chain, pc, amap, vmap, walk, solver, clone>>

\* robot.set_virtual_state(state)
SetVirtualState ==
    /\ pc = "idle"
    /\ ncalls < MaxCalls
    /\ \E state \in Dicts(DOMAIN vmap \cup {"nokey"},
                            {[p \in {"ry"} |-> v] : v \in Values}) :
          ReturnTo(RobotSetVirtualState(Running(groups, << >>), "robot", vmap, state, 1),
                   "set_virtual_state", state)
    /\ UNCHANGED <<chain, pc, amap, vmap, walk, solver, clone>>

\* robot.pass_group_arg_v_to_a(argv_dict)
PassGroupArgVtoA ==
    /\ pc = "idle"
    /\ ncalls < MaxCalls
    /\ \E argv_dict \in Dicts(DOMAIN groups \cup {"nogroup"}, {1}) :
          ReturnTo(PassGroupArg(Running(groups, << >>), "robot", "pass_arg_v_to_a",
                                argv_dict, 1),
                   "pass_group_arg_v_to_a", argv_dict)
    /\ UNCHANGED <<chain, pc, amap, vmap, walk, solver, clone>>

\* robot.pass_group_arg_a_to_v(argv_dict)
PassGroupArgAtoV ==
    /\ pc = "idle"
    /\ ncalls < MaxCalls
    /\ \E argv_dict \in Dicts(DOMAIN groups \cup {"nogroup"}, {1}) :
          ReturnTo(PassGroupArg(Running(groups, << >>), "robot", "pass_arg_a_to_v",
                                argv_dict, 1),
                   "pass_group_arg_a_to_v", argv_dict)
    /\ UNCHANGED <<chain, pc, amap, vmap, walk, solver, clone>>

\* ------------------------------------------------------------------ SimpleInvKinSolver

\* an optional argument: None, or a value
NoArg == [given |-> FALSE]
Given(v) == [given |-> TRUE, value |-> v]

\* SimpleInvKinSolver._virtual_to_solver_state(virtual_state): one value per
\* symbolic key, looked up in virtual_state; a missing key is a KeyError
VirtualToSolverState(symbolic_keys, virtual_state) ==
    IF \A i \in DOMAIN symbolic_keys :
           /\ symbolic_keys[i][1] \in DOMAIN virtual_state
           /\ symbolic_keys[i][2] \in DOMAIN virtual_state[symbolic_keys[i][1]]
    THEN [err |-> "none",
          x0 |-> [i \in DOMAIN symbolic_keys |->
                    virtual_state[symbolic_keys[i][1]][symbolic_keys[i][2]]]]
    ELSE [err |-> "KeyError", x0 |-> << >>]

\* SimpleInvKinSolver._solver_to_virtual_state(solver_state): the dict
\* {outer_key: {inner_key: value}} in the order of the symbolic keys
SolverToVirtualState(symbolic_keys, solver_state) ==
    [i \in DOMAIN solver_state |->
        <<symbolic_keys[i][1], [p \in {symbolic_keys[i][2]} |-> solver_state[i]]>>]

\* SimpleInvKinSolver.solve_virtual(target, initial_tip).  x and converged are
\* what self.inv_kin_solver (casadi's nlpsol with ipopt, built without
\* error_on_fail) gives on this call: its last iterate, and whether it
\* converged
SolveVirtualOf(symbolic_keys, initial_tip, x, converged) ==
    LET n  == Len(symbolic_keys)
        x0 == IF ~initial_tip.given THEN [err |-> "none", x0 |-> [i \in 1..n |-> 0]]
              ELSE VirtualToSolverState(symbolic_keys, initial_tip.value)
    IN  IF x0.err # "none"
        THEN [status |-> x0.err, invoked |-> FALSE, converged |-> FALSE,
              value |-> << >>]
        ELSE IF Len(x0.x0) # n
        THEN [status |-> "RuntimeError", invoked |-> FALSE, converged |-> FALSE,
              value |-> << >>]
        ELSE [status |-> "ok", invoked |-> TRUE, converged |-> converged,
              value |-> SolverToVirtualState(symbolic_keys, x)]

\* the (transformation, parameter) entries of a virtual state
Entries(virtual_state) ==
    {<<t, p>> \in (DOMAIN virtual_state) \X {"rx", "ry"} : p \in DOMAIN virtual_state[t]}

\* the initial guesses tried: none, the empty virtual state, one value per
\* unknown of the solver, and that with a further transformation or a further
\* parameter
InitialTips ==
    LET names == {solver.symbolic_keys[i][1] : i \in DOMAIN solver.symbolic_keys}
    IN  {NoArg, Given(<< >>),
         Given([t \in names |-> [p \in {"ry"} |-> 0]]),
         Given([t \in names \cup {"extra"} |-> [p \in {"ry"} |-> 0]]),
         Given([t \in names |-> [p \in {"rx", "ry"} |-> 0]])}

\* the mapping arguments tried: none, a hint for one group or for a name that
\* is no group, and a hint for a group together with one for no group, in
\* both orders
MappingArguments ==
    LET names == DOMAIN groups \cup {"nogroup"}
        first == Names[1]
    IN  {NoArg} \cup {Given(<< <<n, 1>> >>) : n \in names}
        \cup {Given(<< <<first, 1>>, <<"nogroup", 1>> >>),
              Given(<< <<"nogroup", 1>>, <<first, 1>> >>)}

\* what the external solver may give for n unknowns
SolverOutputs(n) == {[i \in 1..n |-> v] : v \in Values}

\* the robot a solver works on: the caller's, or its own copy
SolverRobot == IF solver.update_robot THEN groups ELSE clone
SolverWho == IF solver.update_robot THEN "robot" ELSE "clone"

\* solver.solve_virtual(target, initial_tip)
SolveVirtual ==
    /\ pc = "idle"
    /\ solver.built
    /\ ncalls < MaxCalls
    /\ \E initial_tip \in InitialTips, converged \in BOOLEAN,
          x \in SolverOutputs(Len(solver.symbolic_keys)) :
          LET r == SolveVirtualOf(solver.symbolic_keys, initial_tip, x, converged)
          IN  result' = [op |-> "solve_virtual", status |-> r.status,
                         invoked |-> r.invoked, converged |-> r.converged,
                         initial_tip |-> initial_tip, virtual_state |-> r.value]
    /\ calls' = << >>
    /\ ncalls' = ncalls + 1
    /\ UNCHANGED <<chain, pc, groups, amap, vmap, walk, solver, clone>>

\* solve_actuated that applies the solved virtual state first and forwards the
\* hint afterwards
SolveActuatedOfHintLast(gd, who, vm, virtual_state, mapping_argument) ==
    LET applied == RobotSetVirtualState(Running(gd, << >>), who, vm, virtual_state, 1)
    IN  IF mapping_argument.given
        THEN PassGroupArg(applied, who, "pass_arg_v_to_a", mapping_argument.value, 1)
        ELSE applied

\* SimpleInvKinSolver.solve_actuated, lines 224-229, once solve_virtual has
\* returned virtual_state: the robot left behind, the calls and the exception
SolveActuatedOf(gd, who, vm, virtual_state, mapping_argument) ==
    LET hinted == IF mapping_argument.given
                  THEN PassGroupArg(Running(gd, << >>), who, "pass_arg_v_to_a",
                                    mapping_argument.value, 1)
                  ELSE Running(gd, << >>)
    IN  RobotSetVirtualState(hinted, who, vm, virtual_state, 1)

\* solver.solve_actuated(target, initial_tip, mapping_argument)
SolveActuated ==
    /\ pc = "idle"
    /\ solver.built
    /\ ncalls < MaxCalls
    /\ \E initial_tip \in InitialTips, converged \in BOOLEAN,
          x \in SolverOutputs(Len(solver.symbolic_keys)),
          mapping_argument \in MappingArguments :
          LET v == SolveVirtualOf(solver.symbolic_keys, initial_tip, x, converged)
              r == SolveActuatedOf(SolverRobot, SolverWho, vmap, v.value,
                                   mapping_argument)
          IN  IF v.status # "ok"
              THEN /\ result' = [op |-> "solve_actuated", status |-> v.status,
                                 invoked |-> v.invoked, converged |-> v.converged,
                                 initial_tip |-> initial_tip,
                                 mapping_argument |-> mapping_argument]
                   /\ calls' = << >>
                   /\ UNCHANGED <<groups, clone>>
              ELSE /\ result' = [op |-> "solve_actuated",
                                 status |-> IF r.err = "none" THEN "ok" ELSE r.err,
                                 invoked |-> v.invoked, converged |-> v.converged,
                                 initial_tip |-> initial_tip,
                                 mapping_argument |-> mapping_argument,
                                 virtual_state |-> v.value,
                                 value |-> IF r.err = "none"
                                           THEN RobotGetActuatedState(r.gd)
                                           ELSE << >>]
                   /\ calls' = r.calls
                   /\ IF solver.update_robot
                      THEN groups' = r.gd /\ UNCHANGED clone
                      ELSE clone' = r.gd /\ UNCHANGED groups
    /\ ncalls' = ncalls + 1
    /\ UNCHANGED <<chain, pc, amap, vmap, walk, solver>>

\* ------------------------------------------------------------------ specifications

\* construction alone, over every shape of element
BuildShapes == {"T_fixed", "T_joint", "open_shared", "closed", "closed_static"}
InitBuild == InitWith(BuildShapes, "any", MaxChain)
NextBuild == Construct
SpecBuild == InitBuild /\ [][NextBuild]_vars


\* the setters and the argument forwarding of a robot
StateShapes == {"T_joint", "open_two", "closed", "closed_static"}
InitState == InitWith(StateShapes, "serial", MaxGroups)
NextState ==
    \/ Construct
    \/ SetActuatedState
    \/ SetVirtualState
    \/ PassGroupArgVtoA
    \/ PassGroupArgAtoV
SpecState == InitState /\ [][NextState]_vars

\* the ancestor chain: forward_kinematics and get_symbolic_rep on robots of
\* any parent structure
WalkShapes == {"T_fixed", "open_joint"}
InitWalk == InitWith(WalkShapes, "any", MaxChain)
NextWalk ==
    \/ Construct
    \/ FKStart
    \/ SymStart
    \/ WalkStep
    \/ FKFinish
    \/ SymFinish
SpecWalk == InitWalk /\ [][NextWalk]_vars

\* the inverse kinematics solver
SolverShapes == {"T_joint", "closed"}
InitSolver == InitWith(SolverShapes, "serial", MaxGroups)
NextSolver ==
    \/ Construct
    \/ InvStart
    \/ WalkStep
    \/ InvFinish
    \/ SolveVirtual
    \/ SolveActuated
SpecSolver == InitSolver /\ [][NextSolver]_vars

\* lookups by group name: the argument forwarding and the endeffector check
LookupShapes == {"T_joint", "closed"}
InitLookup == InitWith(LookupShapes, "serial", MaxGroups)
NextLookup ==
    \/ Construct
    \/ PassGroupArgVtoA
    \/ PassGroupArgAtoV
    \/ FKStart
    \/ SymStart
    \/ WalkStep
    \/ FKFinish
    \/ SymFinish
SpecLookup == InitLookup /\ [][NextLookup]_vars

\* every operation
Init == InitWith(Shapes, "serial", MaxGroups)
Next ==
    \/ NextBuild
    \/ NextState
    \/ NextWalk
    \/ NextSolver
Spec == Init /\ [][Next]_vars

\* ------------------------------------------------------------------ claims

\* a bare Transformation of the input as the group it stands for
ElementGroup(e) ==
    IF e.kind = "Transformation"
    THEN OpenKinematicGroup(e.name, <<Transformation(e.name, e.state)>>, None)
    ELSE e

\* the same actuator key in the actuated state of two elements of the chain,
\* or the same virtual key in the virtual state of two
SharedKeys(ch) ==
    \E i, j \in DOMAIN ch :
        /\ i # j
        /\ \/ DOMAIN GroupActuatedState(ElementGroup(ch[i]))
                  \cap DOMAIN GroupActuatedState(ElementGroup(ch[j])) # {}
           \/ DOMAIN GroupVirtualState(ElementGroup(ch[i]))
                  \cap DOMAIN GroupVirtualState(ElementGroup(ch[j])) # {}

\* C1: whenever two groups of the list share an actuator key or a virtual key,
\* Robot(...) raises the naming-conflict KeyError, yields no Robot, and has
\* called no setter of any group.
C1_SharedKeysRaise ==
    (pc # "new" /\ SharedKeys(chain)) =>
        /\ pc = "failed"
        /\ result.status = "KeyError"
        /\ calls = << >>

\* C2: the parent-following loop is bounded by the number of groups: while it
\* runs, group_key_list never holds more keys than the robot has groups.
C2_DepthGuard ==
    pc = "walk" => Len(walk.group_key_list) <= Cardinality(DOMAIN groups)

RECURSIVE Depth(_, _)
\* number of parent links from a group up to the root
Depth(gd, n) == IF gd[n].parent = n THEN 0 ELSE 1 + Depth(gd, gd[n].parent)

RECURSIVE BaseToTarget(_, _)
\* matrix(root) * ... * matrix(n) along the parent path of n
BaseToTarget(gd, n) ==
    IF gd[n].parent = n THEN GroupMatrix(gd[n])
    ELSE BaseToTarget(gd, gd[n].parent) \o GroupMatrix(gd[n])

\* C3: forward_kinematics(robot, target) multiplies the matrices of exactly
\* the Depth(target)+1 groups on the parent path from the root to the target,
\* each once, root first.
C3_RootFirstProduct ==
    (result.op = "fk" /\ result.status = "ok") =>
        LET path == result.path
        IN  /\ Len(path) = Depth(groups, result.target) + 1
            /\ groups[path[1]].parent = path[1]
            /\ path[Len(path)] = result.target
            /\ \A i \in 1..(Len(path) - 1) : groups[path[i + 1]].parent = path[i]
            /\ \A i, j \in DOMAIN path : i # j => path[i] # path[j]
            /\ calls = [i \in DOMAIN path |->
                          [group |-> path[i], op |-> "get_transformation_matrix"]]
            /\ result.value = BaseToTarget(groups, result.target)

\* C3 witness: forward kinematics of the last group of the chain A -> B -> C
C3_Witness ==
    /\ result.op = "fk"
    /\ result.status = "ok"
    /\ result.path = <<"A", "B", "C">>
    /\ Len(result.value) >= 3

\* C4: with update_robot=False, neither the construction of the solver nor a
\* solve call changes the caller's robot.
C4_CallerRobotUntouched ==
    [][(\/ pc = "walk" /\ walk.mode = "inv" /\ ~walk.update_robot
        \/ pc = "idle" /\ solver.built /\ ~solver.update_robot)
       => groups' = groups]_vars

\* C5: a solve in which the external solver did not converge raises the
\* non-convergence failure; it returns no state.
C5_NonConvergenceRaises ==
    (/\ result.op \in {"solve_virtual", "solve_actuated"}
     /\ result.invoked
     /\ ~result.converged) => result.status = "NonConvergence"

\* C6: solve_virtual with an initial guess whose number of (transformation,
\* parameter) entries differs from the number of unknowns raises the
\* RuntimeError and does not invoke the external solver.
C6_WrongArityRaises ==
    (/\ result.op = "solve_virtual"
     /\ result.initial_tip.given
     /\ Cardinality(Entries(result.initial_tip.value)) # Len(solver.symbolic_keys))
    => (result.status = "RuntimeError" /\ ~result.invoked)

\* the calls the last operation made on group g
CallsTo(g) == {i \in DOMAIN calls : calls[i].group = g}

\* each group the map names for a key of state got one call of op with the
\* sub-map of its keys; every other group got no call
BatchedPerGroup(map, state, op) ==
    \A g \in DOMAIN groups :
        LET owned == {k \in DOMAIN state : map[k] = g}
        IN  IF owned = {} THEN CallsTo(g) = {}
            ELSE /\ Cardinality(CallsTo(g)) = 1
                 /\ \A i \in CallsTo(g) :
                        /\ calls[i].op = op
                        /\ calls[i].arg = Restrict(state, owned)

\* C7: Robot.set_actuated_state(state) with registered keys calls
\* set_actuated_state once on each group owning a key of state, with exactly
\* the sub-map of the keys that group owns, and calls no other group.
C7_ActuatedBatchedPerGroup ==
    (result.op = "set_actuated_state" /\ result.status = "ok") =>
        BatchedPerGroup(amap, AsMap(result.arg), "set_actuated_state")

\* C7 witness: a state of two keys of one group has been set, in one call on
\* that group
C7_Witness ==
    /\ result.op = "set_actuated_state"
    /\ result.status = "ok"
    /\ Len(calls) = 1
    /\ Cardinality(DOMAIN calls[1].arg) = 2

\* C8: Robot.set_virtual_state(state) calls set_virtual_state once on each
\* group owning a key of state, with all of that group's keys together.
C8_VirtualBatchedPerGroup ==
    (result.op = "set_virtual_state" /\ result.status = "ok") =>
        BatchedPerGroup(vmap, AsMap(result.arg), "set_virtual_state")

\* C9: in a constructed robot every bare Transformation of the list is a
\* singleton open group of its name whose parent is the previous element (its
\* own name for the first element), and every group of the list is registered
\* as it was built.
C9_TransformationsWrapped ==
    pc = "idle" =>
        \A i \in DOMAIN chain :
            /\ chain[i].name \in DOMAIN groups
            /\ IF chain[i].kind = "Transformation"
               THEN LET g == groups[chain[i].name]
                    IN  /\ ~g.closed
                        /\ g.name = chain[i].name
                        /\ Len(g.trafos) = 1
                        /\ g.trafos[1].name = chain[i].name
                        /\ g.parent = IF i > 1 THEN chain[i - 1].name
                                               ELSE chain[i].name
               ELSE groups[chain[i].name] = chain[i]

\* C9 witness: a robot built from a group followed by two bare
\* Transformations
C9_Witness ==
    /\ pc = "idle"
    /\ Len(chain) = 3
    /\ chain[1].kind = "Group"
    /\ chain[2].kind = "Transformation"
    /\ chain[3].kind = "Transformation"
    /\ groups["C"].parent = "B"

\* C10: forwarding an argument raises KeyError exactly when a key of the
\* argument is no group of the robot; forward_kinematics and get_symbolic_rep
\* with a target that is no group raise KeyError before the parent links are
\* followed and before any group is evaluated.
C10_UnknownGroupRaises ==
    /\ result.op \in {"pass_group_arg_v_to_a", "pass_group_arg_a_to_v"} =>
          (result.status = "KeyError" <=> ~(Keys(result.arg) \subseteq DOMAIN groups))
    /\ (result.op \in {"fk", "sym"} /\ result.target \notin DOMAIN groups) =>
          /\ result.status = "KeyError"
          /\ pc = "idle"
          /\ walk = NoWalk
          /\ calls = << >>

\* C10 witness: an argument whose second key is no group has been forwarded
C10_Witness ==
    /\ result.op = "pass_group_arg_v_to_a"
    /\ result.status = "KeyError"
    /\ Len(result.arg) = 2
    /\ result.arg[1][1] \in DOMAIN groups
    /\ result.arg[2][1] \notin DOMAIN groups
    /\ Len(calls) = 1

\* the calls of operation op among the calls of a log
CallsOf(cs, op) == {i \in DOMAIN cs : cs[i].op = op}

\* C11: solve_actuated works in a fixed order. When solve_virtual fails nothing
\* is forwarded or applied. Otherwise the hint, if given, is forwarded first,
\* entry by entry with pass_arg_v_to_a, and only then is the solved virtual
\* state applied with set_virtual_state: no hint is forwarded after a
\* set_virtual_state of the same call, and without a hint nothing is forwarded.
\* The value returned is the aggregated actuated state of the robot after the
\* application. A group that got a hint and no set_virtual_state keeps its
\* transformations and its actuated state.
C11_SolveActuatedOrder ==
    [][(ncalls' # ncalls /\ result'.op = "solve_actuated") =>
        LET before == SolverRobot
            after  == IF solver.update_robot THEN groups' ELSE clone'
            hints  == CallsOf(calls', "pass_arg_v_to_a")
            sets   == CallsOf(calls', "set_virtual_state")
            arg    == result'.mapping_argument
        IN  /\ result'.status \in {"ok", "KeyError", "RuntimeError"}
            /\ ~result'.invoked => (calls' = << >> /\ after = before)
            /\ hints \cup sets = DOMAIN calls'
            /\ \A i \in hints, j \in sets : i < j
            /\ ~arg.given => hints = {}
            /\ (result'.invoked /\ arg.given) =>
                  /\ Cardinality(hints) <= Len(arg.value)
                  /\ \A i \in hints : /\ calls'[i].group = arg.value[i][1]
                                       /\ calls'[i].arg = arg.value[i][2]
                  /\ result'.status = "ok" => Cardinality(hints) = Len(arg.value)
            /\ result'.status = "ok" =>
                  /\ Cardinality(sets) = Len(result'.virtual_state)
                  /\ result'.value = RobotGetActuatedState(after)
            /\ result'.status # "ok" => sets = {}
            /\ \A g \in DOMAIN before :
                  (\A j \in sets : calls'[j].group # g) =>
                      /\ after[g].trafos = before[g].trafos
                      /\ after[g].astate = before[g].astate
       ]_vars

\* C11 witness: a solve_actuated has returned that forwarded a hint to one
\* group and then applied the solved state to another
C11_Witness ==
    /\ result.op = "solve_actuated"
    /\ result.status = "ok"
    /\ result.mapping_argument.given
    /\ Len(calls) >= 2
    /\ calls[1].op = "pass_arg_v_to_a"
    /\ calls[Len(calls)].op = "set_virtual_state"
    /\ calls[1].group # calls[Len(calls)].group

\* C12: Robot.set_actuated_state(state) with a key that is no registered
\* actuator, at whatever position among the keys of state, raises KeyError
\* before it calls any group: every group's actuated state and virtual state
\* is as it was.
C12_UnknownKeyAllOrNothing ==
    [][(/\ ncalls' # ncalls
        /\ result'.op = "set_actuated_state"
        /\ Keys(result'.arg) \ DOMAIN amap # {}) =>
            /\ result'.status = "KeyError"
            /\ calls' = << >>
            /\ groups' = groups
       ]_vars

\* C12 witness: a state whose first key is a registered actuator and whose
\* second key is not has been refused
C12_Witness ==
    /\ result.op = "set_actuated_state"
    /\ result.status = "KeyError"
    /\ Len(result.arg) = 2
    /\ result.arg[1][1] \in DOMAIN amap
    /\ result.arg[2][1] \notin DOMAIN amap
    /\ calls = << >>

====
